---- MODULE Spec2Model ----
(***************************************************************************)
(* A model of the TradingView screening scripts:                           *)
(*   src/tv_equity_scanner.py  (S&P 500 / Russell 3000 scanner, with CLI)  *)
(*   src/top_500_4h.py         (top-500 crypto scanner)                    *)
(*                                                                         *)
(* Strings the code takes apart (tickers, column names) are sequences of   *)
(* one-character strings, so that replace/upper/strip/"in" are computed.   *)
(* Python's None is the string "None"; a raised exception is "EXC".        *)
(***************************************************************************)
EXTENDS Integers, Sequences, FiniteSets, TLC

VARIABLES
  hashSeed,    \* the interpreter's per-process string-hash seed (PYTHONHASHSEED)
  candPc,      \* SpecCand: "idle" | "returned"
  ticker,      \* SpecCand: the identifier tv_symbol_candidates is called on
  pairs,       \* SpecCand: list returned by the last call
  prevPairs    \* SpecCand: history: list returned by the call before the last,
               \* <<"none">> when there was none

VARIABLES
  prog,        \* SpecScan: which scanner runs: "equity" (scan_universe) | "crypto"
  tickers,     \* scan_universe's `tickers`; the crypto script's `cg`
  label,       \* scan_universe's `label`
  intervals,   \* scan_universe's `intervals`
  scanPc,      \* "cand" (about to query a candidate) | "sleep" | "write" | "done" | "crashed"
  tfIdx,       \* index into intervals of the running `for tf`
  i,           \* enumerate(tickers, 1) index of the running `for i, t`
  c,           \* index into the candidate list of the running `for ex, sym`
  rows,        \* `rows`
  written,     \* the to_csv calls so far: <<[file, table], ...>>
  lookups,     \* history: lookups[k][p] = the rating queries made for position p
               \* under intervals[k], in order: <<[ex, sym, rec], ...>>
  lastIO       \* history: the last external event: "none" | "query" | "sleep"

VARIABLES
  argOnly,       \* SpecMain: --only: "None" | "sp500" | "r3000"
  argSkip,       \* --skip_sp500
  argSpCsv,      \* --sp500_csv: "None", or the file at that path
  argR3kCsv,     \* --r3000_csv: "None", or the file at that path
  argStart,      \* --start
  argEnd,        \* --end: "None" or an integer
  argIntervals,  \* --intervals
  mainPc,        \* "parse" | "sp500" | "wiki" | "csv" | "scan_sp500" | "r3000"
                 \*   | "scan_r3000" | "done" | "exit1" | "crashed"
  urlIdx,        \* fetch_sp500: index of the Wikipedia URL tried next
  mainIntervals, \* main's `intervals`
  sp,            \* main's `sp` / `r3k`: the sliced universe about to be scanned
  scanCalls,     \* the scan_universe calls made: <<[label, tickers, intervals], ...>>
  error,         \* the uncaught exception main died of, "None" when none
  loaded,        \* history: what the loader of each universe returned, by
                 \* label ([ok |-> FALSE, ...] until it has)
  tried          \* history: the sources fetch_sp500 has requested, in order

candVars == <<candPc, ticker, pairs, prevPairs>>
scanVars == <<prog, tickers, label, intervals, scanPc, tfIdx, i, c, rows, written,
              lookups, lastIO>>
mainVars == <<argOnly, argSkip, argSpCsv, argR3kCsv, argStart, argEnd, argIntervals,
              mainPc, urlIdx, mainIntervals, sp, scanCalls, error, loaded, tried>>
vars == <<hashSeed, candVars, scanVars, mainVars>>

----------------------------------------------------------------------------
(* Bounds *)

MaxTickerLen == 3
NumSeeds == 6
MaxUniverse == 2
\* --start and --end range over -MaxIdx..MaxIdx
MaxIdx == 4
\* most (timeframe, position) scans in one run: Len(intervals) * Len(tickers)
MaxScans == 2

----------------------------------------------------------------------------
(* Strings as sequences of characters *)

None == "None"

Range(s) == {s[k] : k \in DOMAIN s}

Strs(chars, n) == UNION {[1..k -> chars] : k \in 0..n}

\* code point of the characters the model uses
Ord(ch) ==
  CASE ch = " " -> 32 [] ch = "-" -> 45 [] ch = "." -> 46 [] ch = "/" -> 47
    [] ch = "A" -> 65 [] ch = "B" -> 66 [] ch = "C" -> 67
    [] ch = "a" -> 97 [] ch = "b" -> 98 [] ch = "c" -> 99
    [] OTHER -> 63

\* str.__lt__: lexicographic by code point
RECURSIVE StrLess(_, _)
StrLess(s, t) ==
  IF t = <<>> THEN FALSE
  ELSE IF s = <<>> THEN TRUE
  ELSE IF s[1] # t[1] THEN Ord(s[1]) < Ord(t[1])
  ELSE StrLess(Tail(s), Tail(t))

\* str.replace(old, new) for one-character old and new
Replace(s, old, new) == [k \in DOMAIN s |-> IF s[k] = old THEN new ELSE s[k]]

\* `ch in s`
HasChar(s, ch) == \E k \in DOMAIN s : s[k] = ch

----------------------------------------------------------------------------
(* A Python set of strings is modelled by the sequence of its elements in   *)
(* the order they were added.  Its iteration order is fixed by the strings' *)
(* hashes, which are salted per process: within one process the same set,   *)
(* built the same way, iterates the same way; another process may iterate   *)
(* it in any other order.                                                   *)

\* set.add
SetAdd(s, x) == IF \E k \in DOMAIN s : s[k] = x THEN s ELSE Append(s, x)

RemoveAt(s, k) == SubSeq(s, 1, k - 1) \o SubSeq(s, k + 1, Len(s))

\* the permutation of s that the number n encodes
RECURSIVE NthPerm(_, _)
NthPerm(s, n) ==
  IF s = <<>> THEN <<>>
  ELSE LET k == (n % Len(s)) + 1
       IN  <<s[k]>> \o NthPerm(RemoveAt(s, k), n \div Len(s))

\* `for x in S` under the process's hash seed
SetIter(s, seed) == NthPerm(s, seed)

----------------------------------------------------------------------------
(* tv_symbol_candidates *)

EQUITY_EXCHANGES == <<"NASDAQ", "NYSE", "AMEX">>

\* the elif slip: the second spelling is only tried when the first was not
CandsElif(t) ==
  IF HasChar(t, "-") THEN SetAdd(<<t>>, Replace(t, "-", "."))
  ELSE IF HasChar(t, ".") THEN SetAdd(<<t>>, Replace(t, ".", "-"))
  ELSE <<t>>

\* lines 153-157: the set `cands`
Cands(t) ==
  LET c1 == <<t>>
      c2 == IF HasChar(t, "-") THEN SetAdd(c1, Replace(t, "-", ".")) ELSE c1
  IN  IF HasChar(t, ".") THEN SetAdd(c2, Replace(t, ".", "-")) ELSE c2

\* lines 158-161: for t in cands: for ex in EQUITY_EXCHANGES: pairs.append((ex, t))
CrossPairs(ts) ==
  LET n == Len(EQUITY_EXCHANGES)
  IN  [k \in 1..(Len(ts) * n) |->
         <<EQUITY_EXCHANGES[((k - 1) % n) + 1], ts[((k - 1) \div n) + 1]>>]

\* lines 148-162, in a process whose hash seed is `seed`
CandidatesUnder(t, seed) == CrossPairs(SetIter(Cands(t), seed))

tv_symbol_candidates(t) == CandidatesUnder(t, hashSeed)

----------------------------------------------------------------------------
(* The rating service and get_tv_rating *)

Labels == {"BUY", "STRONG_BUY", "NEUTRAL", "SELL", "STRONG_SELL"}
BuyLabels == {"BUY", "STRONG_BUY"}

\* what one TA_Handler(...).get_analysis().summary can do: raise, come back
\* without a RECOMMENDATION key, or carry a label
ServiceOutcomes == {"EXC", "NOLABEL"} \cup Labels

\* lines 169-174: summary.get("RECOMMENDATION"), None on any exception
get_tv_rating(outcome) ==
  IF outcome = "EXC" THEN None
  ELSE IF outcome = "NOLABEL" THEN None
  ELSE outcome

----------------------------------------------------------------------------
(* scan_universe *)

\* "BUY" < "STRONG_BUY" as strings
RatingLess(r1, r2) == r1 = "BUY" /\ r2 = "STRONG_BUY"

\* sort key ["rating", "ticker"], ascending
RowLess(r1, r2) ==
  \/ RatingLess(r1.rating, r2.rating)
  \/ r1.rating = r2.rating /\ StrLess(r1.ticker, r2.ticker)

\* stable insertion of r into the sorted s
RECURSIVE InsertRow(_, _)
InsertRow(s, r) ==
  IF s = <<>> THEN <<r>>
  ELSE IF RowLess(r, s[1]) THEN <<r>> \o s
  ELSE <<s[1]>> \o InsertRow(Tail(s), r)

\* lines 197-199: out.sort_values(["rating", "ticker"]) (lexsort: stable)
RECURSIVE SortRows(_)
SortRows(s) ==
  IF s = <<>> THEN <<>>
  ELSE InsertRow(SortRows(SubSeq(s, 1, Len(s) - 1)), s[Len(s)])

\* line 200: f"tv_scan_{label}_{tf.replace(' ', '')}.csv"
OutFile(lbl, tf) == <<"tv_scan", lbl, tf>>

\* the slip "keep probing unless the answer is a buy"
StopsProbingBuyOnly(rec) == rec \in BuyLabels

\* lines 186-191: both branches break
StopsProbing(rec) == rec \in BuyLabels \/ rec # None

\* the slip "a row unless the answer is a known non-buy label"
KeepsRowUnlessSell(rec) == rec \notin {"NEUTRAL", "SELL", "STRONG_SELL"}

\* the slip "every answered lookup is a row"
KeepsRowAny(rec) == rec # None

\* line 186
KeepsRow(rec) == rec \in BuyLabels

\* normalized tickers, as the loaders return them ("." already "-")
TickerPool == {<<"A">>, <<"A", "-", "B">>}
ScanSeeds == {0, 1}

\* tv_symbol_candidates(t) for the tickers and hash seeds of the scans
ScanCandidates ==
  [seed \in ScanSeeds |-> [t \in TickerPool |-> CandidatesUnder(t, seed)]]

\* lines 184-191: one turn of `for ex, sym in tv_symbol_candidates(t)`
GetRating ==
  /\ prog = "equity"
  /\ scanPc = "cand"
  /\ LET t   == tickers[i]
         tf  == intervals[tfIdx]
         cs  == ScanCandidates[hashSeed][t]
         ex  == cs[c][1]
         sym == cs[c][2]
     IN  \E outcome \in ServiceOutcomes :
       LET rec == get_tv_rating(outcome)
       IN  /\ lookups' = [lookups EXCEPT ![tfIdx][i] =
                            Append(@, [ex |-> ex, sym |-> sym, rec |-> rec])]
           /\ lastIO' = "query"
           /\ rows' = IF KeepsRow(rec)
                      THEN Append(rows, [ticker |-> t, tv_exchange |-> ex,
                                         tv_symbol |-> sym, rating |-> rec,
                                         timeframe |-> tf])
                      ELSE rows
           /\ IF StopsProbing(rec) \/ c = Len(cs)
              THEN scanPc' = "sleep" /\ c' = 1
              ELSE scanPc' = "cand" /\ c' = c + 1
  /\ UNCHANGED <<candVars, mainVars>>
  /\ UNCHANGED <<hashSeed, prog, tickers, label, intervals, tfIdx, i, written>>

\* line 194 at the end of one ticker's turn: time.sleep(SLEEP_BETWEEN_CALLS),
\* then the next ticker, or the end of the tf's loop
\* (line 192's progress line, every 25th ticker, changes nothing modelled)
Sleep ==
  /\ prog = "equity"
  /\ scanPc = "sleep"
  /\ lastIO' = "sleep"
  /\ IF i < Len(tickers)
     THEN i' = i + 1 /\ scanPc' = "cand"
     ELSE i' = i /\ scanPc' = "write"
  /\ UNCHANGED <<candVars, mainVars>>
  /\ UNCHANGED <<hashSeed, prog, tickers, label, intervals, tfIdx, c, rows, written,
                 lookups>>

\* lines 196-202: sort, to_csv; then the next tf (rows = [] again) or return
WriteTable ==
  /\ prog = "equity"
  /\ scanPc = "write"
  /\ written' = Append(written, [file  |-> OutFile(label, intervals[tfIdx]),
                                 table |-> SortRows(rows)])
  /\ IF tfIdx < Len(intervals)
     THEN /\ tfIdx' = tfIdx + 1
          /\ rows' = <<>>
          /\ i' = 1
          /\ scanPc' = IF tickers = <<>> THEN "write" ELSE "cand"
     ELSE /\ scanPc' = "done"
          /\ UNCHANGED <<tfIdx, rows, i>>
  /\ UNCHANGED <<candVars, mainVars>>
  /\ UNCHANGED <<hashSeed, prog, tickers, label, intervals, c, lookups, lastIO>>

\* lines 225-234: Interval.INTERVAL_4_HOURS, Interval.INTERVAL_1_WEEK, in the
\* order --intervals gives them (a timeframe may be given twice)
IntervalLists == {<<>>, <<"4h">>, <<"4h", "1W">>, <<"1W", "4h">>, <<"4h", "4h">>}

SeqsUpTo(S, n) == UNION {[1..k -> S] : k \in 0..n}

InitScanEquity ==
  /\ prog = "equity"
  /\ hashSeed \in ScanSeeds
  /\ tickers \in SeqsUpTo(TickerPool, MaxUniverse)
  /\ intervals \in IntervalLists
  /\ Len(tickers) * Len(intervals) <= MaxScans
  /\ label = "sp500"
  /\ tfIdx = 1 /\ i = 1 /\ c = 1
  /\ rows = <<>>
  /\ written = <<>>
  /\ lookups = [k \in 1..Len(intervals) |-> [p \in 1..Len(tickers) |-> <<>>]]
  /\ lastIO = "none"
  /\ scanPc = IF intervals = <<>> THEN "done"
              ELSE IF tickers = <<>> THEN "write" ELSE "cand"

----------------------------------------------------------------------------
(* top_500_4h.py *)

\* str.upper on the characters the model uses
UpperChar(ch) ==
  CASE ch = "a" -> "A" [] ch = "b" -> "B" [] ch = "c" -> "C" [] OTHER -> ch

Upper(s) == [k \in DOMAIN s |-> UpperChar(s[k])]

\* str.replace(old, "") for a one-character old
RECURSIVE Remove(_, _)
Remove(s, old) ==
  IF s = <<>> THEN <<>>
  ELSE (IF s[1] = old THEN <<>> ELSE <<s[1]>>) \o Remove(Tail(s), old)

\* lines 12-17
tv_symbols(symbol) ==
  LET s == Remove(Remove(Upper(symbol), "."), "-")
  IN  << <<"BINANCE",  s \o <<"U", "S", "D", "T">> >>,
         <<"BYBIT",    s \o <<"U", "S", "D", "T">> >>,
         <<"COINBASE", s \o <<"U", "S", "D">> >>,
         <<"KRAKEN",   s \o <<"U", "S", "D">> >> >>

\* the objects of the market-cap API's answer (descending is the API's order,
\* not checked by the script)
CoinPool ==
  { [symbol |-> <<"a">>, name |-> "Acoin", market_cap |-> 9],
    [symbol |-> <<"b", "-", "c">>, name |-> "Bcoin", market_cap |-> 5] }

\* tv_symbols(sym) for the coins of the scans
CoinCandidates == [coin \in CoinPool |-> tv_symbols(coin.symbol)]

\* lines 23-37: one turn of `for ex, tvsym in tv_symbols(sym)`: the query, then
\* either the row and the break, or the except branch's sleep
CryptoQuery ==
  /\ prog = "crypto"
  /\ scanPc = "cand"
  /\ LET coin == tickers[i]
         cs   == CoinCandidates[coin]
         ex   == cs[c][1]
         sym  == cs[c][2]
     IN  \E outcome \in ServiceOutcomes :
       LET \* line 27: r.get("RECOMMENDATION", "")
           rec  == IF outcome = "NOLABEL" THEN "" ELSE outcome
           last == (outcome # "EXC") \/ c = Len(cs)
       IN  /\ lookups' = [lookups EXCEPT ![tfIdx][i] =
                            Append(@, [ex |-> ex, sym |-> sym, rec |-> rec])]
           /\ lastIO' = IF outcome = "EXC" THEN "sleep" ELSE "query"
           /\ rows' = IF outcome # "EXC" /\ rec \in BuyLabels
                      THEN Append(rows, [name |-> coin.name,
                                         symbol |-> Upper(coin.symbol),
                                         tv_exchange |-> ex, tv_symbol |-> sym,
                                         market_cap |-> coin.market_cap,
                                         rating_4h |-> rec])
                      ELSE rows
           /\ IF ~last THEN c' = c + 1 /\ i' = i /\ scanPc' = "cand"
              ELSE IF i < Len(tickers) THEN c' = 1 /\ i' = i + 1 /\ scanPc' = "cand"
              ELSE c' = 1 /\ i' = i /\ scanPc' = "write"
  /\ UNCHANGED <<candVars, mainVars>>
  /\ UNCHANGED <<hashSeed, prog, tickers, label, intervals, tfIdx, written>>

\* market_cap descending
IsCapDescending(s) == \A k \in 1..(Len(s) - 1) : s[k].market_cap >= s[k + 1].market_cap

\* lines 40-41: pd.DataFrame(rows).sort_values("market_cap", ascending=False),
\* then to_csv.  A frame built from no rows has no market_cap column:
\* sort_values raises KeyError and nothing is written.  The default sort is
\* not stable: rows of equal market_cap come out in either order.
CryptoExport ==
  /\ prog = "crypto"
  /\ scanPc = "write"
  /\ IF rows = <<>>
     THEN scanPc' = "crashed" /\ UNCHANGED written
     ELSE /\ \E perm \in Permutations(1..Len(rows)) :
               LET out == [k \in 1..Len(rows) |-> rows[perm[k]]]
               IN  /\ IsCapDescending(out)
                   /\ written' = Append(written, [file  |-> <<"tv_4h_buy_top500">>,
                                                  table |-> out])
          /\ scanPc' = "done"
  /\ UNCHANGED <<candVars, mainVars>>
  /\ UNCHANGED <<hashSeed, prog, tickers, label, intervals, tfIdx, i, c, rows,
                 lookups, lastIO>>

InitScanCrypto ==
  /\ prog = "crypto"
  /\ hashSeed = 0
  /\ tickers \in SeqsUpTo(CoinPool, MaxUniverse)
  /\ intervals = <<"4h">>
  /\ label = "top500"
  /\ tfIdx = 1 /\ i = 1 /\ c = 1
  /\ rows = <<>>
  /\ written = <<>>
  /\ lookups = << [p \in 1..Len(tickers) |-> <<>>] >>
  /\ lastIO = "none"
  /\ scanPc = IF tickers = <<>> THEN "write" ELSE "cand"

IdleScan ==
  /\ prog = "none"
  /\ tickers = <<>> /\ intervals = <<>> /\ label = "none"
  /\ scanPc = "done"
  /\ tfIdx = 1 /\ i = 1 /\ c = 1
  /\ rows = <<>> /\ written = <<>> /\ lookups = <<>> /\ lastIO = "none"

NextScan == GetRating \/ Sleep \/ WriteTable \/ CryptoQuery \/ CryptoExport

----------------------------------------------------------------------------
(* SpecCand: a process that calls tv_symbol_candidates, and may be started   *)
(* again (a new run draws a new hash seed).                                  *)

Seeds == 0..(NumSeeds - 1)
TickerChars == {"A", ".", "-"}
TickerInputs == Strs(TickerChars, MaxTickerLen)

NoPairs == <<"none">>

InitCand ==
  /\ candPc = "idle"
  /\ ticker \in TickerInputs
  /\ pairs = <<>>
  /\ prevPairs = NoPairs

IdleCand ==
  /\ candPc = "idle"
  /\ ticker = <<>>
  /\ pairs = <<>>
  /\ prevPairs = NoPairs

\* one invocation on the identifier (the scan makes one per timeframe)
CallCandidates ==
  /\ pairs' = tv_symbol_candidates(ticker)
  /\ prevPairs' = IF candPc = "returned" THEN pairs ELSE NoPairs
  /\ candPc' = "returned"
  /\ UNCHANGED <<hashSeed, ticker>>
  /\ UNCHANGED <<scanVars, mainVars>>

\* the script is run again: a new interpreter, a new hash seed
NewRun ==
  /\ candPc = "returned"
  /\ hashSeed' \in Seeds
  /\ UNCHANGED candVars
  /\ UNCHANGED <<scanVars, mainVars>>

NextCand == CallCandidates \/ NewRun

----------------------------------------------------------------------------
(* Data frames and the loaders *)

LowerChar(ch) ==
  CASE ch = "A" -> "a" [] ch = "B" -> "b" [] ch = "C" -> "c"
    [] ch = "S" -> "s" [] ch = "T" -> "t" [] OTHER -> ch

Lower(s) == [k \in DOMAIN s |-> LowerChar(s[k])]

\* str.strip()
RECURSIVE LStrip(_)
LStrip(s) == IF s # <<>> /\ s[1] = " " THEN LStrip(Tail(s)) ELSE s
RECURSIVE RStrip(_)
RStrip(s) ==
  IF s # <<>> /\ s[Len(s)] = " " THEN RStrip(SubSeq(s, 1, Len(s) - 1)) ELSE s
Strip(s) == RStrip(LStrip(s))

\* `sub in s`
Contains(s, sub) ==
  \E k \in 0..(Len(s) - Len(sub)) : SubSeq(s, k + 1, k + Len(sub)) = sub

STR_symbol == <<"s", "y", "m", "b", "o", "l">>
STR_ticker == <<"t", "i", "c", "k", "e", "r">>
STR_tickers == <<"t", "i", "c", "k", "e", "r", "s">>

\* lines 62, 85: str(c).strip().lower() in ("symbol", "ticker", "tickers")
IsSymbolColumnExact(name) == Lower(Strip(name)) \in {STR_symbol, STR_ticker, STR_tickers}

\* lines 110, 132: "ticker" in str(c).lower() or "symbol" in str(c).lower()
IsSymbolColumnLoose(name) ==
  Contains(Lower(name), STR_ticker) \/ Contains(Lower(name), STR_symbol)

\* index of the first TRUE of a sequence of booleans, 0 when there is none
\* (`for c in df.columns: if ...: col = c; break`)
FirstTrue(bs) ==
  IF \E k \in DOMAIN bs : bs[k]
  THEN CHOOSE k \in DOMAIN bs : bs[k] /\ \A m \in 1..(k - 1) : ~bs[m]
  ELSE 0

FirstColumnExact(df) == FirstTrue([k \in DOMAIN df |-> IsSymbolColumnExact(df[k].name)])
FirstColumnLoose(df) == FirstTrue([k \in DOMAIN df |-> IsSymbolColumnLoose(df[k].name)])

\* lines 94-101 (and 67-75, 115-123, 137-145): . and / to -, blanks out, upper
Normalize(raw) == Upper(Remove(Replace(Replace(raw, ".", "-"), "/", "-"), " "))

NormalizeAll(values) == [k \in DOMAIN values |-> Normalize(values[k])]

\* a call's outcome: the list returned, or the exception raised
Returns(syms) == [ok |-> TRUE, syms |-> syms]
Raises == [ok |-> FALSE, syms |-> <<>>]

\* lines 107-124
read_sp500_csv(df) ==
  LET col == FirstColumnLoose(df)
  IN  IF col = 0 THEN Raises ELSE Returns(NormalizeAll(df[col].values))

\* lines 128-146
read_russell3000(df) ==
  LET col == FirstColumnLoose(df)
  IN  IF col = 0 THEN Raises ELSE Returns(NormalizeAll(df[col].values))

\* lines 81-103: the first table, in page order, with a symbol column
RECURSIVE WikiSymbols(_)
WikiSymbols(tables) ==
  IF tables = <<>> THEN Raises
  ELSE LET col == FirstColumnExact(tables[1])
       IN  IF col = 0 THEN WikiSymbols(Tail(tables))
           ELSE Returns(NormalizeAll(tables[1][col].values))

\* lines 59-76
CsvSymbols(df) ==
  LET col == FirstColumnExact(df)
  IN  IF col = 0 THEN Raises ELSE Returns(NormalizeAll(df[col].values))

----------------------------------------------------------------------------
(* main *)

\* --end is absent (None), or <<n>>
NoEnd == <<>>
\* --sp500_csv / --r3000_csv is absent (None), or the data frame read_csv
\* makes of the file at the path
NoFile == <<>>

\* list[start:end] with the upper index taken in
PySliceInclusive(s, start, end) ==
  LET n  == Len(s)
      lo == IF start < 0 THEN (IF start + n < 0 THEN 0 ELSE start + n)
            ELSE (IF start > n THEN n ELSE start)
      hi == IF end = NoEnd THEN n
            ELSE IF end[1] < 0 THEN (IF end[1] + n < 0 THEN 0 ELSE end[1] + n)
            ELSE (IF end[1] > n THEN n ELSE end[1])
  IN  SubSeq(s, lo + 1, IF hi + 1 > n THEN n ELSE hi + 1)

\* lines 249-252, 261-264: sp[args.start:args.end] / sp[args.start:], with
\* Python's index adjustment (a negative index counts from the end; indices
\* are clamped to the list)
PySlice(s, start, end) ==
  LET n  == Len(s)
      lo == IF start < 0 THEN (IF start + n < 0 THEN 0 ELSE start + n)
            ELSE (IF start > n THEN n ELSE start)
      hi == IF end = NoEnd THEN n
            ELSE IF end[1] < 0 THEN (IF end[1] + n < 0 THEN 0 ELSE end[1] + n)
            ELSE (IF end[1] > n THEN n ELSE end[1])
  IN  SubSeq(s, lo + 1, hi)

\* lines 225-228
interval_map(tf) == IF tf = "4h" THEN "4h" ELSE IF tf = "1w" THEN "1W" ELSE None

ERR_SpCsv == "CSV must contain a 'ticker' or 'symbol' column for S&P 500."
ERR_R3kCsv == "CSV must contain a 'ticker' or 'symbol' column."
ERR_Wiki == "Could not find a constituents table on Wikipedia page."
ERR_AllSources == "Failed to fetch S&P 500 list from all sources."

\* lines 222-238: the arguments are parsed, the intervals mapped
\* (the module-wide sleep setting is overwritten; the model keeps no delay)
ParseArgs ==
  /\ mainPc = "parse"
  /\ IF \E k \in DOMAIN argIntervals : interval_map(argIntervals[k]) = None
     THEN mainPc' = "exit1" /\ UNCHANGED mainIntervals
     ELSE /\ mainIntervals' = [k \in DOMAIN argIntervals |-> interval_map(argIntervals[k])]
          /\ mainPc' = "sp500"
  /\ UNCHANGED <<argOnly, argSkip, argSpCsv, argR3kCsv, argStart, argEnd, argIntervals,
                 urlIdx, sp, scanCalls, error, loaded, tried>>
  /\ UNCHANGED <<hashSeed, candVars, scanVars>>

\* what main does with a loader's return value `got` for the universe `lbl`:
\* the exception ends the process; a list is sliced, then scanned
Loaded(lbl, got, err, scanAt) ==
  IF ~got.ok
  THEN /\ error' = err
       /\ mainPc' = "crashed"
       /\ UNCHANGED <<sp, loaded>>
  ELSE /\ loaded' = [loaded EXCEPT ![lbl] = got]
       /\ sp' = PySlice(got.syms, argStart, argEnd)
       /\ mainPc' = scanAt
       /\ UNCHANGED error

\* lines 240-246: the S&P 500 branch is entered or skipped; with --sp500_csv
\* the file is read here, without it fetch_sp500 starts
EnterSP500 ==
  /\ mainPc = "sp500"
  /\ IF argOnly \in {None, "sp500"} /\ ~argSkip
     THEN IF argSpCsv # NoFile
          THEN Loaded("sp500", read_sp500_csv(argSpCsv), ERR_SpCsv, "scan_sp500")
          ELSE mainPc' = "wiki" /\ UNCHANGED <<sp, loaded, error>>
     ELSE mainPc' = "r3000" /\ UNCHANGED <<sp, loaded, error>>
  /\ UNCHANGED <<argOnly, argSkip, argSpCsv, argR3kCsv, argStart, argEnd, argIntervals,
                 urlIdx, mainIntervals, scanCalls, tried>>
  /\ UNCHANGED <<hashSeed, candVars, scanVars>>

\* pages and files the network can answer with
DF_Unrelated == << [name |-> <<"N", "o">>, values |-> << <<"1">> >>] >>
DF_Constituents ==
  << [name |-> <<"N", "o">>, values |-> << <<"1">>, <<"2">> >>],
     [name |-> <<"S", "y", "m", "b", "o", "l">>,
      values |-> << <<"B", ".", "a">>, <<"C">> >>] >>

\* _try_read_html: None on any exception (pd.read_html raises when the page
\* has no table, so a list is never empty), else the page's tables
NoTables == <<>>
WikiOutcomes == {NoTables, <<DF_Unrelated>>, <<DF_Unrelated, DF_Constituents>>}
\* the dataset request: an exception (empty frame here), or the parsed CSV
CsvOutcomes == {[ok |-> FALSE, df |-> <<>>], [ok |-> TRUE, df |-> DF_Unrelated],
                [ok |-> TRUE, df |-> DF_Constituents]}

NumWikiUrls == 3

\* lines 46-49 and, once a page gave tables, lines 81-103; then main's slice
TryWiki ==
  /\ mainPc = "wiki"
  /\ \E tables \in WikiOutcomes :
       /\ tried' = Append(tried, <<"wiki", urlIdx>>)
       /\ IF tables = NoTables
          THEN /\ IF urlIdx < NumWikiUrls
                  THEN urlIdx' = urlIdx + 1 /\ mainPc' = "wiki"
                  ELSE urlIdx' = urlIdx /\ mainPc' = "csv"
               /\ UNCHANGED <<sp, loaded, error>>
          ELSE /\ Loaded("sp500", WikiSymbols(tables), ERR_Wiki, "scan_sp500")
               /\ UNCHANGED urlIdx
  /\ UNCHANGED <<argOnly, argSkip, argSpCsv, argR3kCsv, argStart, argEnd, argIntervals,
                 mainIntervals, scanCalls>>
  /\ UNCHANGED <<hashSeed, candVars, scanVars>>

\* lines 52-78: the CSV dataset; any failure in it is re-raised
FetchCsv ==
  /\ mainPc = "csv"
  /\ \E resp \in CsvOutcomes :
       /\ tried' = Append(tried, <<"csv", 1>>)
       /\ Loaded("sp500", IF ~resp.ok THEN Raises ELSE CsvSymbols(resp.df),
                 ERR_AllSources, "scan_sp500")
  /\ UNCHANGED <<argOnly, argSkip, argSpCsv, argR3kCsv, argStart, argEnd, argIntervals,
                 urlIdx, mainIntervals, scanCalls>>
  /\ UNCHANGED <<hashSeed, candVars, scanVars>>

\* lines 254, 266: scan_universe(sp, label, intervals); its own steps are
\* SpecScan's, here the call is recorded
ScanCall(lbl, then) ==
  /\ scanCalls' = Append(scanCalls, [label |-> lbl, tickers |-> sp,
                                     intervals |-> mainIntervals])
  /\ mainPc' = then
  /\ UNCHANGED <<argOnly, argSkip, argSpCsv, argR3kCsv, argStart, argEnd, argIntervals,
                 urlIdx, mainIntervals, sp, error, loaded, tried>>
  /\ UNCHANGED <<hashSeed, candVars, scanVars>>

ScanSP500 == mainPc = "scan_sp500" /\ ScanCall("sp500", "r3000")

\* lines 256-265
EnterR3000 ==
  /\ mainPc = "r3000"
  /\ IF argOnly \in {None, "r3000"} /\ argR3kCsv # NoFile
     THEN Loaded("russell3000", read_russell3000(argR3kCsv), ERR_R3kCsv, "scan_r3000")
     ELSE mainPc' = "done" /\ UNCHANGED <<sp, loaded, error>>
  /\ UNCHANGED <<argOnly, argSkip, argSpCsv, argR3kCsv, argStart, argEnd, argIntervals,
                 urlIdx, mainIntervals, scanCalls, tried>>
  /\ UNCHANGED <<hashSeed, candVars, scanVars>>

ScanR3000 == mainPc = "scan_r3000" /\ ScanCall("russell3000", "done")

\* the ticker files a path can hold
FILE_NoTickerColumn ==
  << [name |-> <<"N", "a", "m", "e">>, values |-> << <<"a">>, <<"b">> >>] >>
FILE_Three ==
  << [name |-> <<"N", "a", "m", "e">>, values |-> << <<"x">>, <<"y">>, <<"z">> >>],
     [name |-> <<"T", "i", "c", "k", "e", "r", " ", "s", "y", "m", "b", "o", "l">>,
      values |-> << <<"a", ".", "b">>, <<"c", " ">>, <<"A", "/", "B">> >>] >>
FILE_One ==
  << [name |-> <<"S", "y", "m", "b", "o", "l">>, values |-> << <<"b">> >>] >>
FilePool == {FILE_NoTickerColumn, FILE_Three, FILE_One}

IntervalArgs == {<<"4h", "1w">>, <<"1w">>, <<"1d">>}

InitMain ==
  /\ argOnly \in {None, "sp500", "r3000"}
  /\ argSkip \in BOOLEAN
  /\ argSpCsv \in {NoFile} \cup FilePool
  /\ argR3kCsv \in {NoFile} \cup FilePool
  /\ argStart \in (-MaxIdx)..MaxIdx
  /\ argEnd \in {NoEnd} \cup {<<n>> : n \in (-MaxIdx)..MaxIdx}
  /\ argIntervals \in IntervalArgs
  /\ mainPc = "parse"
  /\ urlIdx = 1
  /\ mainIntervals = <<>>
  /\ sp = <<>>
  /\ scanCalls = <<>>
  /\ error = None
  /\ loaded = [lbl \in {"sp500", "russell3000"} |-> Raises]
  /\ tried = <<>>

IdleMain ==
  /\ argOnly = None /\ argSkip = FALSE /\ argSpCsv = NoFile /\ argR3kCsv = NoFile
  /\ argStart = 0 /\ argEnd = NoEnd /\ argIntervals = <<>>
  /\ mainPc = "done"
  /\ urlIdx = 1
  /\ mainIntervals = <<>>
  /\ sp = <<>>
  /\ scanCalls = <<>>
  /\ error = None
  /\ loaded = [lbl \in {"sp500", "russell3000"} |-> Raises]
  /\ tried = <<>>

NextMain ==
  ParseArgs \/ EnterSP500 \/ TryWiki \/ FetchCsv \/ ScanSP500 \/ EnterR3000 \/ ScanR3000

----------------------------------------------------------------------------
(* Properties of the candidate generator *)

\* every "." written "-", every "-" written "."
DashSpelling(t) == Replace(t, ".", "-")
DotSpelling(t) == Replace(t, "-", ".")

Venues == Range(EQUITY_EXCHANGES)

NoRepeat(s) == \A j, k \in DOMAIN s : j # k => s[j] # s[k]

HasPunct(t) == HasChar(t, ".") \/ HasChar(t, "-")

\* C8: for an identifier with "." or "-", the returned list holds, for every
\* venue, the pair with the "-" spelling and the pair with the "." spelling,
\* and no pair twice; for any other identifier, exactly one pair per venue.
C8_BothSpellingsEveryVenue ==
  candPc = "returned" =>
    IF HasPunct(ticker)
    THEN /\ \A ex \in Venues :
              /\ <<ex, DashSpelling(ticker)>> \in Range(pairs)
              /\ <<ex, DotSpelling(ticker)>> \in Range(pairs)
         /\ NoRepeat(pairs)
    ELSE /\ Len(pairs) = Cardinality(Venues)
         /\ \A ex \in Venues : Cardinality({k \in DOMAIN pairs : pairs[k][1] = ex}) = 1
         /\ \A k \in DOMAIN pairs : pairs[k][2] = ticker

\* a call on an identifier with both characters has returned (three spellings)
C8_Witness ==
  /\ candPc = "returned"
  /\ HasChar(ticker, ".") /\ HasChar(ticker, "-")
  /\ Len(pairs) = 3 * Cardinality(Venues)

\* C9: two invocations on the same identifier, in the same run or in
\* different runs, return the same pairs in the same order.
C9_SameOrderEveryInvocation ==
  (candPc = "returned" /\ prevPairs # NoPairs) => pairs = prevPairs

----------------------------------------------------------------------------
(* Properties of main and the loaders *)

\* the identifiers of u at the 0-based positions p with lo <= p < hi, in order
Picked(u, lo, hi) ==
  LET ps    == {p \in 0..(Len(u) - 1) : lo <= p /\ p < hi}
      first == IF lo < 0 THEN 0 ELSE lo
  IN  [j \in 1..Cardinality(ps) |-> u[first + j]]

UniverseOf(call) == loaded[call.label].syms

EndOr(n) == IF argEnd = NoEnd THEN n ELSE argEnd[1]

\* a negative index counts from the end of a list of n
FromEnd(x, n) == IF x < 0 THEN x + n ELSE x

\* C3 as stated: for any integer --start and optional --end, scan_universe
\* gets exactly the identifiers at positions start <= p < end (end absent: N),
\* in order, for both universes.
C3_SliceAnyIntegers ==
  \A k \in DOMAIN scanCalls :
    scanCalls[k].tickers
      = Picked(UniverseOf(scanCalls[k]), argStart, EndOr(Len(UniverseOf(scanCalls[k]))))

\* C3 amended: the positions are start <= p < end after a negative --start or
\* --end has been increased by N; for --start and --end that are not negative
\* this is the claim as stated.
C3_SliceFromEndWhenNegative ==
  \A k \in DOMAIN scanCalls :
    LET u == UniverseOf(scanCalls[k])
        n == Len(u)
    IN  scanCalls[k].tickers = Picked(u, FromEnd(argStart, n), FromEnd(EndOr(n), n))

\* both universes were scanned, each over the middle one of its three positions
C3_Witness ==
  /\ mainPc = "done"
  /\ Len(scanCalls) = 2
  /\ argStart = 1 /\ argEnd = <<2>>
  /\ \A k \in DOMAIN scanCalls :
       Len(UniverseOf(scanCalls[k])) = 3 /\ Len(scanCalls[k].tickers) = 1

AllSources ==
  [k \in 1..NumWikiUrls |-> <<"wiki", k>>] \o << <<"csv", 1>> >>

\* C5: fetch_sp500 raises only after the three Wikipedia URLs, in order, and
\* then the CSV dataset have all been tried.
C5_FailsOnlyAfterAllSources ==
  error \in {ERR_Wiki, ERR_AllSources} => tried = AllSources

Requested(lbl) ==
  IF lbl = "sp500" THEN argOnly \in {None, "sp500"} /\ ~argSkip
  ELSE argOnly \in {None, "r3000"} /\ argR3kCsv # NoFile

\* C6: when a supplied ticker file lacks the ticker/symbol column, the other
\* universe's scan still runs: a requested Russell 3000 scan over a good file
\* after a bad --sp500_csv, the S&P 500 scan before a bad --r3000_csv.
C6_BadFileStopsOneUniverse ==
  /\ (error = ERR_SpCsv /\ Requested("russell3000") /\ read_russell3000(argR3kCsv).ok)
       => \E k \in DOMAIN scanCalls : scanCalls[k].label = "russell3000"
  /\ (error = ERR_R3kCsv /\ Requested("sp500"))
       => \E k \in DOMAIN scanCalls : scanCalls[k].label = "sp500"

\* C7: what a loader returns holds no normalized identifier twice, so no
\* identifier is handed to the scan twice.
C7_LoadersDeduplicate ==
  /\ \A lbl \in DOMAIN loaded : NoRepeat(loaded[lbl].syms)
  /\ \A k \in DOMAIN scanCalls : NoRepeat(scanCalls[k].tickers)

----------------------------------------------------------------------------
(* Properties of the scans *)

\* the label-less outcomes: None (scan_universe), an exception or "" (crypto)
Unavailable(rec) == rec \in {None, "EXC", ""}

CandidatesAt(p) ==
  IF prog = "crypto" THEN CoinCandidates[tickers[p]]
  ELSE ScanCandidates[hashSeed][tickers[p]]

Slots == (DOMAIN lookups) \X (DOMAIN tickers)

\* the scan of position p under intervals[k] is over
ScanOver(k, p) ==
  \/ k < tfIdx
  \/ k = tfIdx /\ p < i
  \/ k = tfIdx /\ p = i /\ scanPc # "cand"

\* C1: candidates are queried in list order; a candidate is queried only if
\* every earlier candidate of that identifier came back unavailable; after the
\* first answer that is not unavailable no further candidate is queried.
C1_StopAtFirstAnswer ==
  \A sl \in Slots :
    LET q  == lookups[sl[1]][sl[2]]
        cs == CandidatesAt(sl[2])
    IN  \/ q = <<>>
        \/ /\ Len(q) <= Len(cs)
           /\ [j \in DOMAIN q |-> <<q[j].ex, q[j].sym>>] = SubSeq(cs, 1, Len(q))
           /\ \A j \in 1..(Len(q) - 1) : Unavailable(q[j].rec)
           /\ ~Unavailable(q[Len(q)].rec) => ScanOver(sl[1], sl[2])

\* a second candidate answered SELL, and the run went on to its end
C1_Witness ==
  /\ scanPc = "done"
  /\ \E sl \in Slots :
       LET q == lookups[sl[1]][sl[2]]
       IN  /\ Len(q) = 2
           /\ Unavailable(q[1].rec)
           /\ q[2].rec = "SELL"
           /\ Len(CandidatesAt(sl[2])) > 2

\* every candidate of position p was queried under intervals[k], all unavailable
Exhausted(k, p) ==
  /\ lookups[k][p] # <<>>
  /\ \A j \in DOMAIN lookups[k][p] : Unavailable(lookups[k][p][j].rec)
  /\ Len(lookups[k][p]) = Len(CandidatesAt(p))

\* the table of intervals[k]: the file once written, `rows` while it is built
TableOf(k) ==
  IF k <= Len(written) THEN written[k].table
  ELSE IF k = tfIdx THEN rows ELSE <<>>

RowIdentifier(r) == IF prog = "crypto" THEN r.symbol ELSE r.ticker
Identifier(p) == IF prog = "crypto" THEN Upper(tickers[p].symbol) ELSE tickers[p]

\* C2: an identifier whose every candidate lookup was unavailable has no row
\* in that timeframe's table, and the scan has gone on past it without error.
C2_UnavailableHasNoRow ==
  \A sl \in Slots :
    Exhausted(sl[1], sl[2]) =>
      /\ (\A p \in DOMAIN tickers :
            Identifier(p) = Identifier(sl[2]) => Exhausted(sl[1], p))
         => \A j \in DOMAIN TableOf(sl[1]) :
              RowIdentifier(TableOf(sl[1])[j]) # Identifier(sl[2])
      /\ ScanOver(sl[1], sl[2])
      /\ scanPc = "crashed" => (prog = "crypto" /\ i = Len(tickers) /\ rows = <<>>)

\* the first identifier was unavailable everywhere, the next one got a row
C2_Witness ==
  /\ Len(tickers) = 2
  /\ intervals # <<>>
  /\ Exhausted(1, 1)
  /\ Len(TableOf(1)) = 1
  /\ scanPc = "done"

\* C4: between any two consecutive rating queries a sleep occurs: a query is
\* only issued when the last external event was not a query.
C4_SleepBetweenQueries == [][lookups' # lookups => lastIO # "query"]_vars

\* index of the first answer of q that is not unavailable, 0 when there is none
FirstAnswer(q) ==
  IF \E j \in DOMAIN q : ~Unavailable(q[j].rec)
  THEN CHOOSE j \in DOMAIN q :
         ~Unavailable(q[j].rec) /\ \A m \in 1..(j - 1) : Unavailable(q[m].rec)
  ELSE 0

Qualifies(k, p) ==
  /\ FirstAnswer(lookups[k][p]) # 0
  /\ lookups[k][p][FirstAnswer(lookups[k][p])].rec \in BuyLabels

\* the row position p must have in the table of intervals[k]
ExpectedRow(k, p) ==
  LET j == FirstAnswer(lookups[k][p])
      cand == ScanCandidates[hashSeed][tickers[p]][j]
  IN  [ticker |-> tickers[p], tv_exchange |-> cand[1], tv_symbol |-> cand[2],
       rating |-> lookups[k][p][j].rec, timeframe |-> intervals[k]]

Count(s, r) == Cardinality({j \in DOMAIN s : s[j] = r})

\* C10: scan_universe writes one table per requested timeframe, after the
\* whole universe was iterated for it (also when no row qualifies); the table
\* holds exactly one row per position whose first answered candidate said BUY
\* or STRONG_BUY, with that candidate's venue and symbol, the label and the
\* timeframe, and nothing else.
C10_OneTablePerTimeframe ==
  prog = "equity" =>
    /\ Len(written) = IF scanPc = "done" THEN Len(intervals) ELSE tfIdx - 1
    /\ \A k \in DOMAIN written :
         /\ written[k].file = OutFile(label, intervals[k])
         /\ \A p \in DOMAIN tickers :
              /\ lookups[k][p] # <<>>
              /\ FirstAnswer(lookups[k][p]) = 0 => Exhausted(k, p)
         /\ Len(written[k].table) = Cardinality({p \in DOMAIN tickers : Qualifies(k, p)})
         /\ \A p \in DOMAIN tickers :
              Qualifies(k, p) =>
                Count(written[k].table, ExpectedRow(k, p))
                  = Cardinality({p2 \in DOMAIN tickers :
                                   Qualifies(k, p2) /\ ExpectedRow(k, p2) = ExpectedRow(k, p)})
         /\ \A j \in DOMAIN written[k].table : written[k].table[j].rating \in BuyLabels

\* two timeframes were scanned: a table with a row, then an empty one
C10_Witness ==
  /\ prog = "equity"
  /\ scanPc = "done"
  /\ Len(written) = 2
  /\ Len(written[1].table) = 1
  /\ written[2].table = <<>>

----------------------------------------------------------------------------
(* Specifications *)

InitCandSpec == hashSeed \in Seeds /\ InitCand /\ IdleScan /\ IdleMain

SpecCand == InitCandSpec /\ [][NextCand]_vars

InitScan == (InitScanEquity \/ InitScanCrypto) /\ IdleCand /\ IdleMain

SpecScan == InitScan /\ [][NextScan]_vars

InitMainSpec == InitMain /\ hashSeed = 0 /\ IdleCand /\ IdleScan

SpecMain == InitMainSpec /\ [][NextMain]_vars

====
